---- MODULE Spec2Model ----
(***************************************************************************)
(* Calcaneal pitch analysis of pes_planus_app.                             *)
(*                                                                         *)
(*   src/src/ai/analyzer.py      analyze_calcaneal_pitch, PesPlanusAnalyzer *)
(*   src/src/core/geometry.py    get_angle_classification                   *)
(*   src/src/core/dicom_loader.py  load_dicom_array, load_image_array       *)
(*                                                                         *)
(* Units and encodings                                                     *)
(*   - a point is <<x, y>> in pixel coordinates, y growing downwards;      *)
(*   - an angle is an integer number of hundredths of a degree, so the     *)
(*     one-decimal value 26.6 is 2660 and the threshold 15 is 1500;        *)
(*   - a contour is the set of its boundary points; the cleaned mask is    *)
(*     the sequence of its external contours (what cv2.morphologyEx and    *)
(*     cv2.findContours leave), the pixel raster itself is not modelled;   *)
(*   - Python's max/min return the first extremal element of the hull      *)
(*     sequence; the order of cv2.convexHull's output is not fixed here,   *)
(*     so a tie yields every tied element as a possible outcome;           *)
(*   - user-visible strings are the source's, transliterated to ASCII.     *)
(***************************************************************************)
EXTENDS Integers, Sequences, FiniteSets, TLC

VARIABLES
    weights_file,   \* what is stored at model_path on disk
    constructed,    \* PesPlanusAnalyzer.__init__ has run
    ctor_raised,    \* __init__ let an exception escape
    model,          \* self.model
    image_data,     \* the argument the caller passes to analyze
    result,         \* the dict returned by the last analyze call
    trace,          \* the stages the last analyze call went through
    keypts,         \* Point A / Point B the last angle was computed from
    q_angle,        \* classification query: the angle asked about
    q_cat,          \* classification query: category of analyze's step 3
    q_geo,          \* classification query: get_angle_classification's answer
    calc_points,    \* canvas.calc_points: positions of the calcaneus markers
    ground_points,  \* canvas.ground_points: positions of the ground markers
    lbl_angle,      \* the widget's angle label: << >> for "--", else <<angle>>
    lbl_class,      \* the widget's category label
    slot_exc,       \* exception raised by the last on_points_updated call
    drags,          \* marker moves made so far
    folder,         \* the image files of the folder the batch tab scans
    scan,           \* FileScannerWorker: number of the next file it
                    \* reports, 0 when no scan is under way
    lists,          \* the BatchItem lists created so far, by list id
    ui_items,       \* BatchAnalysisWidget.items: id of its list, 0 = none
    worker,         \* the BatchWorker threads, by worker id
    ui_worker,      \* BatchAnalysisWidget.worker: id of a worker, 0 = None
    btn_start,      \* the start button is enabled
    btn_stop,       \* the stop button is enabled
    ui_wait,        \* the UI thread is inside worker.wait()
    ui_infer        \* the widget's analyzer: "unbuilt", "running" (the UI
                    \* thread is inside its analyze call) or "idle"

vars == <<weights_file, constructed, ctor_raised, model, image_data, result,
          trace, keypts, q_angle, q_cat, q_geo, calc_points, ground_points,
          lbl_angle, lbl_class, slot_exc, drags, folder, scan, lists,
          ui_items, worker, ui_worker, btn_start, btn_stop, ui_wait, ui_infer>>

analyzerVars == <<weights_file, constructed, ctor_raised, model, image_data,
                  result, trace, keypts>>

queryVars == <<q_angle, q_cat, q_geo>>

widgetVars == <<calc_points, ground_points, lbl_angle, lbl_class, slot_exc,
                drags>>

batchVars == <<folder, scan, lists, ui_items, worker, ui_worker, btn_start,
               btn_stop, ui_wait, ui_infer>>

---------------------------------------------------------------------------
(* Bounds of the model *)

\* the kernel fits at MaxX + 1 horizontal positions inside a wide mask,
\* which is MaxX + KernelSize pixels wide
MaxX == 5

\* the kernel fits at MaxY + 1 vertical positions, the mask is
\* MaxY + KernelSize pixels high
MaxY == 1

\* the bone region is the union of at most MaxPts kernel windows
MaxPts == 3

\* a scanned folder holds at most MaxItems image files
MaxItems == 2

\* a large image has FarMargin columns on either side of the bone region
FarMargin == 300

\* in a large image the bone region is the union of at most FarPts
\* kernel windows
FarPts == 2

\* a cleaned mask holds at most MaxContours separate regions
MaxContours == 2

\* the user moves a marker at most MaxDrags times
MaxDrags == 1

\* classification queries range over -QueryBelow .. QueryMax hundredths
QueryBelow == 300

QueryMax == 9300

---------------------------------------------------------------------------
(* Program constants *)

\* length of the ground reference line in pixels
GroundLen == 250

\* side of the square structuring element of the morphological opening
KernelSize == 5

---------------------------------------------------------------------------
(* Small arithmetic helpers *)

Abs(n) == IF n < 0 THEN 0 - n ELSE n

Min2(a, b) == IF a <= b THEN a ELSE b

Max2(a, b) == IF a >= b THEN a ELSE b

\* sum of weight(e) over the elements of S, for weights >= 0
SumOver(S, weight(_)) ==
    Cardinality(UNION { { <<e, k>> : k \in 1..weight(e) } : e \in S })

MaxOf(S) == CHOOSE v \in S : \A u \in S : u <= v

MinOf(S) == CHOOSE v \in S : \A u \in S : v <= u

\* round(math.degrees(math.atan(dy / dx)), 1) for 0 <= dy <= 10 and
\* 1 <= dx <= 12, in tenths of a degree: row dy + 1, column dx
AtanTable ==
    << <<  0,   0,   0,   0,   0,   0,   0,   0,   0,   0,   0,   0>>,
       <<450, 266, 184, 140, 113,  95,  81,  71,  63,  57,  52,  48>>,
       <<634, 450, 337, 266, 218, 184, 159, 140, 125, 113, 103,  95>>,
       <<716, 563, 450, 369, 310, 266, 232, 206, 184, 167, 153, 140>>,
       <<760, 634, 531, 450, 387, 337, 297, 266, 240, 218, 200, 184>>,
       <<787, 682, 590, 513, 450, 398, 355, 320, 291, 266, 244, 226>>,
       <<805, 716, 634, 563, 502, 450, 406, 369, 337, 310, 286, 266>>,
       <<819, 741, 668, 603, 545, 494, 450, 412, 379, 350, 325, 303>>,
       <<829, 760, 694, 634, 580, 531, 488, 450, 416, 387, 360, 337>>,
       <<837, 775, 716, 660, 609, 563, 521, 484, 450, 420, 393, 369>>,
       <<843, 787, 733, 682, 634, 590, 550, 513, 480, 450, 423, 398>> >>

\* round(math.degrees(math.atan(q)), 1) for q = dy / dx >= 0, in hundredths
AtanDeg(dy, dx) == 10 * AtanTable[dy + 1][dx]

---------------------------------------------------------------------------
(* Library geometry: what the cv2 calls of analyze_calcaneal_pitch compute *)

\* z component of (a - o) x (b - o)
Cross(o, a, b) ==
    (a[1] - o[1]) * (b[2] - o[2]) - (a[2] - o[2]) * (b[1] - o[1])

\* the points of a contour that are the leftmost or the rightmost of their
\* row and the topmost or the lowest of their column: every vertex of the
\* convex hull is among them
outer_points(contour) ==
    { v : v \in
        { p \in contour :
            /\ \/ \A r \in contour : r[2] = p[2] => r[1] >= p[1]
               \/ \A r \in contour : r[2] = p[2] => r[1] <= p[1]
            /\ \/ \A r \in contour : r[1] = p[1] => r[2] >= p[2]
               \/ \A r \in contour : r[1] = p[1] => r[2] <= p[2] } }

\* the vertices of the convex polygon around points: p is a vertex when
\* some q makes p -> q a supporting line: every other point lies strictly
\* to one side of it, or on it beyond p
hull_vertices(points) ==
    LET vertex(p) ==
          \/ points = {p}
          \/ \E q \in points \ {p} :
                \A r \in points \ {p} :
                   LET c == Cross(p, q, r)
                   IN  \/ c > 0
                       \/ /\ c = 0
                          /\ (q[1] - p[1]) * (r[1] - p[1])
                                + (q[2] - p[2]) * (r[2] - p[2]) > 0
    IN  { v : v \in { p \in points : vertex(p) } }

\* cv2.convexHull: the vertices of the smallest convex polygon around the
\* contour
convexHull(contour) ==
    UNION { hull_vertices(points) : points \in { outer_points(contour) } }

\* cv2.boundingRect: x, y of the top-left corner, width and height
boundingRect(contour) ==
    LET xs == { p[1] : p \in contour }
        ys == { p[2] : p \in contour }
    IN  [x |-> MinOf(xs), y |-> MinOf(ys),
         w |-> MaxOf(xs) - MinOf(xs) + 1, h |-> MaxOf(ys) - MinOf(ys) + 1]

\* the directed edges of a convex polygon given by its vertices: every
\* other vertex lies strictly to one side
HullEdges(hull) ==
    { e \in hull \X hull :
        /\ e[1] # e[2]
        /\ \A r \in hull \ {e[1], e[2]} : Cross(e[1], e[2], r) > 0 }

\* twice the area of a convex polygon: the triangles of a fan around one
\* of its vertices
FanArea2(hull) ==
    LET p0 == CHOOSE p \in hull : TRUE
        Tri(e) == Abs(Cross(p0, e[1], e[2]))
    IN  SumOver(HullEdges(hull), Tri)

\* twice cv2.contourArea of a convex outline
contourArea2(contour) ==
    MaxOf({ FanArea2(hull) : hull \in {convexHull(contour)} })

\* variant of largest_contour: the first contour found
largest_contour_first(contours) == contours[1]

\* max(contours, key=cv2.contourArea): the first contour of largest area
largest_contour(contours) ==
    LET area == [i \in 1..Len(contours) |-> contourArea2(contours[i])]
        best == CHOOSE i \in 1..Len(contours) :
                  /\ \A j \in 1..Len(contours) : area[j] <= area[i]
                  /\ \A j \in 1..(i - 1) : area[j] < area[i]
    IN  contours[best]

---------------------------------------------------------------------------
(* analyze_calcaneal_pitch: keypoints, ground line, angle *)

\* Python's None where a point is expected
None == <<>>

\* mid_x = x + w // 2 of the bounding box
mid_x_of(contour) ==
    LET r == boundingRect(contour) IN r.x + (r.w \div 2)

left_half(hull_points, mid_x) == { pt \in hull_points : pt[1] < mid_x }

right_half(hull_points, mid_x) == { pt \in hull_points : pt[1] >= mid_x }

XOf(p) == p[1]

\* the nested helper: deepest level, all points on it, truncated mean x
get_corner_point(points) ==
    IF points = {} THEN None
    ELSE LET y_max      == MaxOf({ p[2] : p \in points })
             candidates == { p \in points : p[2] = y_max }
         IN  << SumOver(candidates, XOf) \div Cardinality(candidates), y_max >>

\* every order in which a set of points can be listed
RECURSIVE Listings(_)
Listings(points) ==
    IF points = {} THEN { << >> }
    ELSE UNION { { << p >> \o l : l \in Listings(points \ {p}) } :
                 p \in points }

\* [p for p in points if p[1] == y_max]
RECURSIVE at_level(_, _)
at_level(points, y_max) ==
    IF points = << >> THEN << >>
    ELSE IF Head(points)[2] = y_max
         THEN << Head(points) >> \o at_level(Tail(points), y_max)
         ELSE at_level(Tail(points), y_max)

\* sum(p[0] for p in candidates)
RECURSIVE sum_x(_)
sum_x(candidates) ==
    IF candidates = << >> THEN 0
    ELSE Head(candidates)[1] + sum_x(Tail(candidates))

\* variant of get_corner_point_list: the first point listed at the
\* deepest level
get_corner_point_first(points) ==
    IF points = << >> THEN None
    ELSE LET y_max == MaxOf({ points[i][2] : i \in DOMAIN points })
         IN  at_level(points, y_max)[1]

\* the nested helper on the list it is given: y_values, y_max, candidates
\* in list order, int(sum / len)
get_corner_point_list(points) ==
    IF points = << >> THEN None
    ELSE LET y_max      == MaxOf({ points[i][2] : i \in DOMAIN points })
             candidates == at_level(points, y_max)
         IN  IF candidates = << >> THEN points[1]
             ELSE << sum_x(candidates) \div Len(candidates), y_max >>

\* max(points, key=score) / min(points, key=score): the first extremal
\* element in hull order, here every extremal element
ArgMax(points, score(_)) ==
    { p \in points : \A q \in points : score(q) <= score(p) }

ArgMin(points, score(_)) ==
    { p \in points : \A q \in points : score(p) <= score(q) }

XPlusY(p) == p[1] + p[2]

XMinusY(p) == p[1] - p[2]

\* p1_deepest and its fallback min(hull_points, key=x)
p1_candidates(hull_points, mid_x) ==
    LET p == get_corner_point(left_half(hull_points, mid_x))
    IN  IF p = None THEN ArgMin(hull_points, XOf) ELSE {p}

\* p2_deepest and its fallback max(hull_points, key=x)
p2_candidates(hull_points, mid_x) ==
    LET p == get_corner_point(right_half(hull_points, mid_x))
    IN  IF p = None THEN ArgMax(hull_points, XOf) ELSE {p}

\* variant of orient: Point B is the landmark of the toe half
orient_landmark_b(p1_deepest, p2_deepest, left, right) ==
    IF p1_deepest[2] >= p2_deepest[2]
    THEN { [heel_is_left |-> TRUE, pa |-> p1_deepest, pb |-> p2_deepest] }
    ELSE { [heel_is_left |-> FALSE, pa |-> p2_deepest, pb |-> p1_deepest] }

\* variant of orient: the half with the shallower landmark is the heel
orient_shallow(p1_deepest, p2_deepest, left, right) ==
    IF p1_deepest[2] <= p2_deepest[2]
    THEN { [heel_is_left |-> TRUE, pa |-> p1_deepest, pb |-> pb] :
             pb \in IF right # {} THEN ArgMax(right, XPlusY) ELSE {p2_deepest} }
    ELSE { [heel_is_left |-> FALSE, pa |-> p2_deepest, pb |-> pb] :
             pb \in IF left # {} THEN ArgMin(left, XMinusY) ELSE {p1_deepest} }

\* variant of orient: Point B is taken from the heel's own half
orient_same_half(p1_deepest, p2_deepest, left, right) ==
    IF p1_deepest[2] >= p2_deepest[2]
    THEN { [heel_is_left |-> TRUE, pa |-> p1_deepest, pb |-> pb] :
             pb \in IF left # {} THEN ArgMax(left, XPlusY) ELSE {p2_deepest} }
    ELSE { [heel_is_left |-> FALSE, pa |-> p2_deepest, pb |-> pb] :
             pb \in IF right # {} THEN ArgMin(right, XMinusY) ELSE {p1_deepest} }

\* variant of orient: on equal depth the right half is the heel (>)
orient_strict(p1_deepest, p2_deepest, left, right) ==
    IF p1_deepest[2] > p2_deepest[2]
    THEN { [heel_is_left |-> TRUE, pa |-> p1_deepest, pb |-> pb] :
             pb \in IF right # {} THEN ArgMax(right, XPlusY) ELSE {p2_deepest} }
    ELSE { [heel_is_left |-> FALSE, pa |-> p2_deepest, pb |-> pb] :
             pb \in IF left # {} THEN ArgMin(left, XMinusY) ELSE {p1_deepest} }

\* orientation and Point A / Point B for one pair of deepest points
orient(p1_deepest, p2_deepest, left, right) ==
    IF p1_deepest[2] >= p2_deepest[2]
    THEN { [heel_is_left |-> TRUE, pa |-> p1_deepest, pb |-> pb] :
             pb \in IF right # {} THEN ArgMax(right, XPlusY) ELSE {p2_deepest} }
    ELSE { [heel_is_left |-> FALSE, pa |-> p2_deepest, pb |-> pb] :
             pb \in IF left # {} THEN ArgMin(left, XMinusY) ELSE {p1_deepest} }

\* keypoints from the hull vertices and the split column
keypoints_of(hull, mid_x) ==
    LET left  == left_half(hull, mid_x)
        right == right_half(hull, mid_x)
    IN  UNION { orient(p1, p2, left, right) :
                  <<p1, p2>> \in p1_candidates(hull, mid_x)
                                   \X p2_candidates(hull, mid_x) }

\* section 2 of analyze_calcaneal_pitch: every keypoint choice the hull
\* order allows
select_keypoints(contour) ==
    UNION { keypoints_of(hull, mid_x) :
              <<hull, mid_x>> \in {convexHull(contour)} \X {mid_x_of(contour)} }

\* variant of ground_line: the line extends behind the heel
ground_line_behind(pa, heel_is_left, w_img) ==
    IF heel_is_left
    THEN << <<Max2(0, pa[1] - GroundLen), pa[2]>>, <<pa[1], pa[2]>> >>
    ELSE << <<pa[1], pa[2]>>, <<Min2(w_img, pa[1] + GroundLen), pa[2]>> >>

\* section 3: the horizontal reference line at Point A's level
ground_line(pa, heel_is_left, w_img) ==
    IF heel_is_left
    THEN << <<pa[1], pa[2]>>, <<Min2(w_img, pa[1] + GroundLen), pa[2]>> >>
    ELSE << <<Max2(0, pa[1] - GroundLen), pa[2]>>, <<pa[1], pa[2]>> >>

\* variant of pitch_angle: math.atan(dy / dx) on the signed slope
pitch_angle_signed(pa, pb) ==
    LET dx == pb[1] - pa[1]
        dy == pb[2] - pa[2]
    IN  IF dx = 0 THEN 9000
        ELSE IF (dy < 0) # (dx < 0) THEN 0 - AtanDeg(Abs(dy), Abs(dx))
        ELSE AtanDeg(Abs(dy), Abs(dx))

\* section 4: absolute-slope angle, rounded to one decimal
pitch_angle(pa, pb) ==
    LET dx == pb[1] - pa[1]
        dy == pb[2] - pa[2]
    IN  IF dx = 0 THEN 9000 ELSE AtanDeg(Abs(dy), Abs(dx))

\* the values analyze_calcaneal_pitch can return for a mask
\* (vis_img is returned as well; it is a drawing, kept as a tag)
analyze_calcaneal_pitch(mask) ==
    IF mask.contours = << >>
    THEN { [vis_img |-> "copy", angle |-> 0,
            calc_pts |-> << <<0, 0>>, <<0, 0>> >>,
            ground_pts |-> << <<0, 0>>, <<0, 0>> >>,
            pa |-> None, pb |-> None] }
    ELSE UNION {
           { [vis_img |-> "annotated", angle |-> pitch_angle(k.pa, k.pb),
              calc_pts |-> << k.pa, k.pb >>,
              ground_pts |-> ground_line(k.pa, k.heel_is_left, mask.w),
              pa |-> k.pa, pb |-> k.pb] : k \in select_keypoints(c) } :
           c \in { largest_contour(mask.contours) } }

---------------------------------------------------------------------------
(* Masks: what the opening and the contour search leave *)

\* cv2.morphologyEx(mask, MORPH_OPEN, 5x5 kernel): what is left of the
\* foreground is a union of kernel windows, each clipped at the image
\* border; the corner pixels of the window centred at c
window_corners(w, h, c) ==
    LET r == KernelSize \div 2
    IN  { Max2(0, c[1] - r), Min2(w - 1, c[1] + r) }
            \X { Max2(0, c[2] - r), Min2(h - 1, c[2] + r) }

\* cv2.findContours on the opened mask whose foreground is the union of
\* the windows centred at `centres`: the outline's extreme points
opened_contour(w, h, centres) ==
    UNION { window_corners(w, h, c) : c \in centres }

\* image sizes: a wide one, and one that is a single pixel column
WideW == MaxX + KernelSize

ImageH == MaxY + KernelSize

\* window centres that keep the whole window inside the image; in the
\* one-column image the window is clipped to that column
Centres(w) ==
    LET r == KernelSize \div 2
    IN  (IF w = 1 THEN {0} ELSE r..(r + MaxX)) \X (r..(r + MaxY))

\* two windows whose pixels overlap or are 8-neighbours
Touching(c, d) ==
    Abs(c[1] - d[1]) <= KernelSize /\ Abs(c[2] - d[2]) <= KernelSize

\* the sets of k window centres that form one region: a region of one
\* window, or a smaller region and one more window that touches it
RECURSIVE RegionsOfSize(_, _)
RegionsOfSize(k, w) ==
    IF k = 1 THEN { {c} : c \in Centres(w) }
    ELSE UNION { { A \cup {c} :
                     c \in { d \in Centres(w) \ A :
                               \E e \in A : Touching(d, e) } } :
                 A \in RegionsOfSize(k - 1, w) }

\* the sets of one to MaxPts window centres that form one region
CentreSets(w) == UNION { RegionsOfSize(k, w) : k \in 1..MaxPts }

EmptyMask == [w |-> WideW, h |-> ImageH, contours |-> << >>]

\* the cleaned segmentations of an image w pixels wide whose foreground is
\* one region: the one outline of a connected union of windows
MasksOfWidth(w) ==
    { [w |-> w, h |-> ImageH,
       contours |-> << opened_contour(w, ImageH, A) >>] :
        A \in CentreSets(w) }

\* width of a large image
FarW == FarMargin + WideW + FarMargin

\* the cleaned segmentations of a large image: one region, FarMargin
\* columns away from the left and the right border
FarMasks ==
    { [w |-> FarW, h |-> ImageH,
       contours |-> << { << p[1] + FarMargin, p[2] >> :
                           p \in opened_contour(WideW, ImageH, A) } >>] :
        A \in UNION { RegionsOfSize(k, WideW) : k \in 1..FarPts } }

\* columns set aside for one region of a mask with several regions: the
\* widest such region and a gap of two columns
SlotW == KernelSize + MaxContours + 1

\* the outline of the region that k windows side by side leave in the
\* top rows of slot number `slot` of a large image
bar_contour(slot, k) ==
    LET r == KernelSize \div 2
    IN  opened_contour(FarW, ImageH,
                       { << slot * SlotW + r + j, r >> : j \in 0..(k - 1) })

\* the cleaned segmentations with two to MaxContours regions, listed in
\* the order cv2.findContours reports them; the regions have every
\* combination of sizes, so the largest may come first, last or be tied
SeveralContours ==
    UNION { { [w |-> FarW, h |-> ImageH,
               contours |-> [i \in 1..n |-> bar_contour(i - 1, sizes[i])]] :
                sizes \in [1..n -> 1..MaxContours] } :
            n \in 2..MaxContours }

\* the cleaned segmentation of an image: no contour at all, one, or several
Masks ==
    { EmptyMask } \cup MasksOfWidth(1) \cup MasksOfWidth(WideW) \cup FarMasks
        \cup SeveralContours

\* the split column and the two halves of the hull of a mask's contour
halves_of(mask) ==
    IF mask.contours = << >> THEN [left |-> {}, right |-> {}, mid_x |-> 0]
    ELSE LET c    == largest_contour(mask.contours)
             hull == convexHull(c)
         IN  [left  |-> { p : p \in left_half(hull, mid_x_of(c)) },
              right |-> { p : p \in right_half(hull, mid_x_of(c)) },
              mid_x |-> mid_x_of(c)]

\* the masks whose hull points are listed in every order: the one-column
\* images and the large ones
ListedMasks == MasksOfWidth(1) \cup FarMasks

HalfTable == [m \in ListedMasks |-> halves_of(m)]

\* for each mask and each half, what get_corner_point returns over all the
\* orders in which cv2.convexHull may list the half's points
CornerOutcomes ==
    [m \in ListedMasks |->
       LET h == HalfTable[m]
       IN  [left  |-> { get_corner_point_list(l) : l \in Listings(h.left) },
            right |-> { get_corner_point_list(l) : l \in Listings(h.right) }]]

\* analyze_calcaneal_pitch(image, mask_original) for each of the masks
PitchOutcomes == [m \in Masks |-> analyze_calcaneal_pitch(m)]

---------------------------------------------------------------------------
(* Classification *)

\* variant of analyze_classify: the first two comparisons closed (<=)
analyze_classify_closed(angle) ==
    IF angle <= 1500 THEN [cat |-> "Pes Planus", color |-> "#ff0000"]
    ELSE IF angle <= 2000
         THEN [cat |-> "Sinirda (Borderline)", color |-> "#ffae00"]
    ELSE IF angle <= 3000 THEN [cat |-> "Normal", color |-> "#00ff00"]
    ELSE [cat |-> "Pes Cavus", color |-> "#ff0000"]

\* step 3 of PesPlanusAnalyzer.analyze (thresholds 15, 20, 30 degrees)
analyze_classify(angle) ==
    IF angle < 1500 THEN [cat |-> "Pes Planus", color |-> "#ff0000"]
    ELSE IF angle < 2000
         THEN [cat |-> "Sinirda (Borderline)", color |-> "#ffae00"]
    ELSE IF angle <= 3000 THEN [cat |-> "Normal", color |-> "#00ff00"]
    ELSE [cat |-> "Pes Cavus", color |-> "#ff0000"]

\* geometry.get_angle_classification
get_angle_classification(angle, mode) ==
    IF mode = "calcaneal"
    THEN IF angle < 1500 THEN [cat |-> "Pes Planus", color |-> "#ff7675"]
         ELSE IF 1500 <= angle /\ angle < 2000
              THEN [cat |-> "Borderline", color |-> "#ffeaa7"]
         ELSE [cat |-> "Normal", color |-> "#55efc4"]
    ELSE IF mode = "mearys"
    THEN LET deviation == IF angle > 9000 THEN Abs(18000 - angle) ELSE angle
         IN  IF deviation <= 400 THEN [cat |-> "Normal", color |-> "#55efc4"]
             ELSE IF deviation <= 1500
                  THEN [cat |-> "Hafif Pes Planus", color |-> "#ffeaa7"]
             ELSE IF deviation <= 3000
                  THEN [cat |-> "Siddetli Pes Planus", color |-> "#ff7675"]
             ELSE [cat |-> "Deformite / Hata", color |-> "#fab1a0"]
    ELSE [cat |-> "Bilinmiyor", color |-> "#b2bec3"]

---------------------------------------------------------------------------
(* Image loading and the analyzer *)

\* dicom_loader.load_dicom_array: the pixel array, or None on any exception
load_dicom_array(file) == IF file.readable THEN "array" ELSE "None"

\* dicom_loader.load_image_array: the decoded image, or None when the file
\* cannot be read or cv2.imdecode gives nothing
load_image_array(file) == IF file.readable THEN "array" ELSE "None"

\* PesPlanusAnalyzer._load_model: the model it leaves in self.model and
\* whether it raises (smp.Unet is built outside its try block)
load_model(file, unet_ok) ==
    IF file = "missing" THEN [model |-> "None", raised |-> FALSE]
    ELSE IF ~unet_ok THEN [model |-> "None", raised |-> TRUE]
    ELSE IF file = "corrupt" THEN [model |-> "None", raised |-> FALSE]
    ELSE [model |-> file, raised |-> FALSE]

\* variant of init_analyzer: _load_model called outside any try block
init_analyzer_no_catch(file, unet_ok) == load_model(file, unet_ok)

\* PesPlanusAnalyzer.__init__: self.model = None, then _load_model inside
\* try/except Exception
init_analyzer(file, unet_ok) ==
    [model |-> load_model(file, unet_ok).model, raised |-> FALSE]

Stage(name, on) == [stage |-> name, on |-> on]

ErrorResult(msg) == [error |-> msg]

\* step 0 of analyze: the image the pipeline works on, the stages run to
\* get it, and the error message when the input is rejected ("" when not)
load_input(data) ==
    IF data.kind = "str"
    THEN LET image == IF data.ext \in {".dcm", ".dicom"}
                      THEN load_dicom_array(data) ELSE load_image_array(data)
         IN  [image |-> image, trace |-> << Stage("load", data.ext) >>,
              error |-> IF image = "None"
                        THEN "Goruntu okunamadi: <path>" ELSE ""]
    ELSE IF data.kind = "ndarray"
    THEN [image |-> "array",
          trace |-> IF data.ndim = 3 THEN << Stage("cvtColor", "-") >>
                    ELSE << >>,
          error |-> ""]
    ELSE [image |-> "None", trace |-> << >>,
          error |-> "Gecersiz giris formati"]

\* variant of package_result: the ground segment listed first
package_result_swapped(angle, cls, calc_pts, ground_pts, vis_image) ==
    [angle |-> angle,
     diagnosis |-> cls.cat,
     raw_color |-> cls.color,
     lines |-> << ground_pts, calc_pts >>,
     visualized_image |-> vis_image]

\* step 4 of analyze: the result dict
package_result(angle, cls, calc_pts, ground_pts, vis_image) ==
    [angle |-> angle,
     diagnosis |-> cls.cat,
     raw_color |-> cls.color,
     lines |-> << calc_pts, ground_pts >>,
     visualized_image |-> vis_image]

\* the array analyze hands to the pitch algorithm as original_img: a 2-D
\* ndarray argument itself (image = image_data), else an array made by
\* the loader or by cv2.cvtColor
image_array(data) ==
    IF data.kind = "ndarray" /\ data.ndim = 2 THEN "image_data" ELSE "image"

\* variant of vis_img_of: the algorithm draws on original_img itself
vis_img_of_alias(original_img) == original_img

\* analyze_calcaneal_pitch, "Ensure formats": vis_img is a new array in
\* both branches, cv2.cvtColor(original_img, GRAY2BGR) or original_img.copy()
vis_img_of(original_img) == "vis_img"

\* sections 3 and 5 of analyze_calcaneal_pitch: cv2.line, cv2.circle,
\* cv2.rectangle and cv2.putText write into vis_img once keypoints exist
drawing(o, original_img) ==
    IF o.vis_img = "annotated"
    THEN << Stage("draw", vis_img_of(original_img)) >>
    ELSE << >>

\* an error return of analyze
failed(msg, stages) ==
    { [result |-> ErrorResult(msg), trace |-> stages, keypts |-> None] }

\* steps 1 to 4 of analyze, from the model check on: prediction, the
\* pitch algorithm on the resized mask, classification, packaging
run_pipeline(data, mdl, stages) ==
    IF mdl = "None"
    THEN failed("Model yuklu degil", stages)
    ELSE { [result |-> package_result(o.angle, analyze_classify(o.angle),
                                      o.calc_pts, o.ground_pts, o.vis_img),
            trace |-> stages \o << Stage("preprocess", "-"),
                                   Stage("forward", mdl),
                                   Stage("resize_mask", "-"),
                                   Stage("analyze_calcaneal_pitch", "-") >>
                             \o drawing(o, image_array(data))
                             \o << Stage("classify", "-") >>,
            keypts |-> IF o.pa = None THEN None ELSE << o.pa, o.pb >>] :
             o \in PitchOutcomes[data.mask] }

\* variant of analyze: self.model is tested before the input is loaded
analyze_model_first(data, mdl) ==
    LET inp == load_input(data)
    IN  IF mdl = "None" THEN failed("Model yuklu degil", << >>)
        ELSE IF inp.error # "" THEN failed(inp.error, inp.trace)
        ELSE IF inp.image = "None" THEN failed("Goruntu okunamadi", inp.trace)
        ELSE run_pipeline(data, mdl, inp.trace)

\* PesPlanusAnalyzer.analyze: the outcomes of one call, each with the
\* returned dict, the stages run and the keypoints the angle came from
analyze(data, mdl) ==
    LET inp == load_input(data)
    IN  IF inp.error # "" THEN failed(inp.error, inp.trace)
        ELSE IF inp.image = "None" THEN failed("Goruntu okunamadi", inp.trace)
        ELSE run_pipeline(data, mdl, inp.trace)

\* the editable overlay the widget builds from a result: a DraggablePoint
\* sits at the position it is constructed with (setPos(x, y))
DraggablePoint(x, y) == << x, y >>

\* PesPlanusWidget.run_ai_analysis, step 2: c1, c2 = lines[0] and
\* g1, g2 = lines[1] become the canvas' calc_points and ground_points
canvas_points(lines) ==
    IF Len(lines) >= 2
    THEN [calc_points |->
            << DraggablePoint(lines[1][1][1], lines[1][1][2]),
               DraggablePoint(lines[1][2][1], lines[1][2][2]) >>,
          ground_points |->
            << DraggablePoint(lines[2][1][1], lines[2][1][2]),
               DraggablePoint(lines[2][2][1], lines[2][2][2]) >>]
    ELSE [calc_points |-> << >>, ground_points |-> << >>]

---------------------------------------------------------------------------
(* Inputs *)

\* the masks of the images that are read from a file or arrive with a
\* colour axis: blank, or a single column
LoadedMasks == { EmptyMask } \cup MasksOfWidth(1)

\* what a caller can hand to analyze: a path (DICOM or raster, readable or
\* not), a 2-D or 3-D array, or something else; mask is the segmentation
\* the network yields for the image
ImageInputs ==
    { [kind |-> "str", ext |-> e, readable |-> TRUE, ndim |-> 2, mask |-> m] :
        e \in {".dcm", ".png"}, m \in LoadedMasks }
    \cup { [kind |-> "str", ext |-> e, readable |-> FALSE, ndim |-> 2,
            mask |-> EmptyMask] : e \in {".dcm", ".png"} }
    \cup { [kind |-> "ndarray", ext |-> "-", readable |-> TRUE, ndim |-> 3,
            mask |-> m] : m \in LoadedMasks }
    \cup { [kind |-> "ndarray", ext |-> "-", readable |-> TRUE, ndim |-> 2,
            mask |-> m] : m \in Masks }
    \cup { [kind |-> "other", ext |-> "-", readable |-> FALSE, ndim |-> 2,
            mask |-> EmptyMask] }

WeightFiles == {"missing", "corrupt", "v1", "v2"}

NoResult == [pending |-> TRUE]

\* the worker threads the batch tab may start
Workers == {1, 2}

\* the BatchItem lists the batch tab may create
ListIds == {1, 2}

\* a BatchWorker that has not been created
NoWorker ==
    [list |-> 0, pc |-> "none", i |-> 0, is_running |-> FALSE, total |-> 0,
     emitted |-> << >>, model |-> "None", inst |-> None, pending |-> FALSE,
     late |-> 0]

\* BatchAnalysisWidget after init_ui: no items, no worker, both buttons
\* disabled; an empty folder
InitBatchIdle ==
    /\ folder = << >>
    /\ scan = 0
    /\ lists = [l \in ListIds |-> << >>]
    /\ ui_items = 0
    /\ worker = [w \in Workers |-> NoWorker]
    /\ ui_worker = 0
    /\ btn_start = FALSE
    /\ btn_stop = FALSE
    /\ ui_wait = FALSE
    /\ ui_infer = "unbuilt"

\* PesPlanusWidget after init_ui: an empty canvas, "--" and "" on the labels
InitWidget ==
    /\ calc_points = << >>
    /\ ground_points = << >>
    /\ lbl_angle = << >>
    /\ lbl_class = ""
    /\ slot_exc = ""
    /\ drags = 0

---------------------------------------------------------------------------
(* The analyzer as a state machine *)

Init ==
    /\ weights_file \in WeightFiles
    /\ constructed = FALSE
    /\ ctor_raised = FALSE
    /\ model = "None"
    /\ image_data \in ImageInputs
    /\ result = NoResult
    /\ trace = << >>
    /\ keypts = None
    /\ q_angle = 0
    /\ q_cat = "-"
    /\ q_geo = "-"
    /\ InitWidget
    /\ InitBatchIdle

\* PesPlanusAnalyzer(model_path)
Construct ==
    /\ ~constructed
    /\ \E unet_ok \in BOOLEAN :
         LET r == init_analyzer(weights_file, unet_ok)
         IN  /\ model' = r.model
             /\ ctor_raised' = r.raised
    /\ constructed' = TRUE
    /\ UNCHANGED <<weights_file, image_data, result, trace, keypts>>
    /\ UNCHANGED queryVars
    /\ UNCHANGED widgetVars
    /\ UNCHANGED batchVars

\* variant of Analyze: every call loads the weights file again
AnalyzeReloading ==
    /\ constructed
    /\ ~ctor_raised
    /\ model' = load_model(weights_file, TRUE).model
    /\ \E o \in analyze(image_data, model') :
         /\ result' = o.result
         /\ trace' = o.trace
         /\ keypts' = o.keypts
    /\ UNCHANGED <<weights_file, constructed, ctor_raised, image_data>>
    /\ UNCHANGED queryVars
    /\ UNCHANGED widgetVars
    /\ UNCHANGED batchVars

\* analyzer.analyze(image_data)
Analyze ==
    /\ constructed
    /\ ~ctor_raised
    /\ \E o \in analyze(image_data, model) :
         /\ result' = o.result
         /\ trace' = o.trace
         /\ keypts' = o.keypts
    /\ UNCHANGED <<weights_file, constructed, ctor_raised, model, image_data>>
    /\ UNCHANGED queryVars
    /\ UNCHANGED widgetVars
    /\ UNCHANGED batchVars

\* the environment replaces, removes or damages the weights file
WeightsChange ==
    /\ \E f \in WeightFiles \ {weights_file} : weights_file' = f
    /\ UNCHANGED <<constructed, ctor_raised, model, image_data, result,
                   trace, keypts>>
    /\ UNCHANGED queryVars
    /\ UNCHANGED widgetVars
    /\ UNCHANGED batchVars

Next == Construct \/ Analyze \/ WeightsChange

Spec == Init /\ [][Next]_vars

---------------------------------------------------------------------------
(* The measurement widget: overlay markers and the recomputed angle *)

\* round(math.degrees(math.atan(dy / dx)), 2) for 0 <= dy <= 10 and
\* 1 <= dx <= 12, in hundredths of a degree: row dy + 1, column dx
AtanTable2 ==
    << <<   0,    0,    0,    0,    0,    0,    0,    0,    0,    0,    0,    0>>,
       <<4500, 2657, 1843, 1404, 1131,  946,  813,  713,  634,  571,  519,  476>>,
       <<6343, 4500, 3369, 2657, 2180, 1843, 1595, 1404, 1253, 1131, 1030,  946>>,
       <<7157, 5631, 4500, 3687, 3096, 2657, 2320, 2056, 1843, 1670, 1526, 1404>>,
       <<7596, 6343, 5313, 4500, 3866, 3369, 2974, 2657, 2396, 2180, 1998, 1843>>,
       <<7869, 6820, 5904, 5134, 4500, 3981, 3554, 3201, 2905, 2657, 2444, 2262>>,
       <<8054, 7157, 6343, 5631, 5019, 4500, 4060, 3687, 3369, 3096, 2861, 2657>>,
       <<8187, 7405, 6680, 6026, 5446, 4940, 4500, 4119, 3787, 3499, 3247, 3026>>,
       <<8287, 7596, 6944, 6343, 5799, 5313, 4881, 4500, 4163, 3866, 3603, 3369>>,
       <<8366, 7747, 7157, 6604, 6095, 5631, 5213, 4837, 4500, 4199, 3929, 3687>>,
       <<8429, 7869, 7330, 6820, 6343, 5904, 5501, 5134, 4801, 4500, 4227, 3981>> >>

\* the direction of the vector (vx, vy), in hundredths of a degree from
\* 0 up to 36000
Direction(vx, vy) ==
    IF vy = 0 THEN (IF vx >= 0 THEN 0 ELSE 18000)
    ELSE IF vx = 0 THEN (IF vy > 0 THEN 9000 ELSE 27000)
    ELSE LET a == AtanTable2[Abs(vy) + 1][Abs(vx)]
         IN  IF vx > 0 /\ vy > 0 THEN a
             ELSE IF vx < 0 /\ vy > 0 THEN 18000 - a
             ELSE IF vx < 0 /\ vy < 0 THEN 18000 + a
             ELSE 36000 - a

\* geometry.calculate_angle: the angle between the vectors p1 -> p2 and
\* p3 -> p4, from 0 to 180 degrees, 0.0 when either has no length. The
\* arc cosine of the normalised dot product is the difference of the two
\* directions; it is exact here whenever one segment is axis-parallel
calculate_angle(p1, p2, p3, p4) ==
    LET v1_x == p2[1] - p1[1]
        v1_y == p2[2] - p1[2]
        v2_x == p4[1] - p3[1]
        v2_y == p4[2] - p3[2]
        d    == Abs(Direction(v1_x, v1_y) - Direction(v2_x, v2_y))
    IN  IF (v1_x = 0 /\ v1_y = 0) \/ (v2_x = 0 /\ v2_y = 0) THEN 0
        ELSE IF d > 18000 THEN 36000 - d ELSE d

\* the names of calculate_angle's parameters
calculate_angle_params == {"p1", "p2", "p3", "p4"}

\* a Python call calculate_angle(p1, p2, p3, p4, **kwargs): a keyword that
\* names no parameter raises TypeError before the body runs
call_calculate_angle(p1, p2, p3, p4, kwargs) ==
    IF kwargs \subseteq calculate_angle_params
    THEN [exc |-> "", value |-> calculate_angle(p1, p2, p3, p4)]
    ELSE [exc |-> "TypeError", value |-> 0]

\* the labels of the widget: angle, category, and the exception the slot
\* that last wrote them ended with
Labels(angle, class, exc) == [angle |-> angle, class |-> class, exc |-> exc]

\* PesPlanusWidget.on_points_updated in calcaneal mode: the labels it
\* leaves, given the labels before
on_points_updated(points, before) ==
    IF Len(points) = 4
    THEN LET r == call_calculate_angle(points[1], points[2], points[3],
                                       points[4], {"one_sided"})
         IN  IF r.exc # "" THEN Labels(before.angle, before.class, r.exc)
             ELSE Labels(<< r.value >>,
                         get_angle_classification(r.value, "calcaneal").cat,
                         "")
    ELSE Labels(<< >>, "", "")

\* CanvasWidget.update_lines: the points it emits with points_updated
update_lines(ground, calc) ==
    IF Len(ground) = 2 /\ Len(calc) = 2
    THEN << ground[1], ground[2], calc[1], calc[2] >>
    ELSE << >>

\* PesPlanusWidget.run_ai_analysis after a success result: reset_drawing,
\* the four markers, update_lines, then the labels from the result. Whether
\* an exception of the slot reaches the emitting call is the binding's
\* choice (propagates): if it does, the handler's except clause ends it
run_ai_analysis_display(res, propagates) ==
    LET cleared == on_points_updated(<< >>, Labels(<< >>, "", ""))
        pts == canvas_points(res.lines)
        upd == on_points_updated(
                   update_lines(pts.ground_points, pts.calc_points), cleared)
    IN  [calc_points |-> pts.calc_points,
         ground_points |-> pts.ground_points,
         labels |-> IF upd.exc # "" /\ propagates THEN upd
                    ELSE Labels(<< res.angle >>,
                                get_angle_classification(res.angle,
                                                         "calcaneal").cat,
                                upd.exc)]

\* the masks of the images opened in the widget: blank, a single column,
\* or a region of one or two windows
WidgetMasks ==
    LoadedMasks
    \cup { [w |-> WideW, h |-> ImageH,
            contours |-> << opened_contour(WideW, ImageH, A) >>] :
             A \in RegionsOfSize(1, WideW) \cup RegionsOfSize(2, WideW) }

\* the images the widget can hold in current_image_array
WidgetInputs ==
    { d \in ImageInputs :
        d.kind = "ndarray" /\ d.ndim = 2 /\ d.mask \in WidgetMasks }

\* one marker move of one pixel
DragSteps == { <<1, 0>>, <<0, 0 - 1>> }

InitWidgetSpec ==
    /\ weights_file \in {"missing", "v1"}
    /\ constructed = FALSE
    /\ ctor_raised = FALSE
    /\ model = "None"
    /\ image_data \in WidgetInputs
    /\ result = NoResult
    /\ trace = << >>
    /\ keypts = None
    /\ q_angle = 0
    /\ q_cat = "-"
    /\ q_geo = "-"
    /\ InitWidget
    /\ InitBatchIdle

\* the AI button: PesPlanusWidget.run_ai_analysis
RunAiAnalysis ==
    /\ \E unet_ok \in BOOLEAN, propagates \in BOOLEAN :
         LET a == IF constructed THEN [model |-> model, raised |-> FALSE]
                  ELSE init_analyzer(weights_file, unet_ok)
         IN  IF a.raised
             THEN UNCHANGED <<constructed, ctor_raised, model, result, trace,
                              keypts, calc_points, ground_points, lbl_angle,
                              lbl_class, slot_exc>>
             ELSE /\ constructed' = TRUE
                  /\ ctor_raised' = FALSE
                  /\ model' = a.model
                  /\ \E o \in analyze(image_data, a.model) :
                       /\ result' = o.result
                       /\ trace' = o.trace
                       /\ keypts' = o.keypts
                       /\ IF "error" \in DOMAIN o.result
                          THEN UNCHANGED <<calc_points, ground_points,
                                           lbl_angle, lbl_class, slot_exc>>
                          ELSE LET d == run_ai_analysis_display(o.result,
                                                                propagates)
                               IN  /\ calc_points' = d.calc_points
                                   /\ ground_points' = d.ground_points
                                   /\ lbl_angle' = d.labels.angle
                                   /\ lbl_class' = d.labels.class
                                   /\ slot_exc' = d.labels.exc
    /\ UNCHANGED <<weights_file, image_data, drags>>
    /\ UNCHANGED queryVars
    /\ UNCHANGED batchVars

\* the user drags a calcaneus marker: DraggablePoint.itemChange calls
\* update_lines, which still reads the position before the move
DragPoint ==
    /\ drags < MaxDrags
    /\ Len(calc_points) = 2
    /\ Len(ground_points) = 2
    /\ \E i \in 1..2, d \in DragSteps :
         LET upd == on_points_updated(
                        update_lines(ground_points, calc_points),
                        Labels(lbl_angle, lbl_class, slot_exc))
         IN  /\ calc_points' =
                   [calc_points EXCEPT ![i] = << @[1] + d[1], @[2] + d[2] >>]
             /\ lbl_angle' = upd.angle
             /\ lbl_class' = upd.class
             /\ slot_exc' = upd.exc
    /\ drags' = drags + 1
    /\ UNCHANGED ground_points
    /\ UNCHANGED analyzerVars
    /\ UNCHANGED queryVars
    /\ UNCHANGED batchVars

NextWidget == RunAiAnalysis \/ DragPoint

SpecWidget == InitWidgetSpec /\ [][NextWidget]_vars

---------------------------------------------------------------------------
(* The batch tab: BatchAnalysisWidget and its BatchWorker threads *)

\* the mask of a single-column image with one window on it
ColumnMask ==
    [w |-> 1, h |-> ImageH,
     contours |-> << opened_contour(1, ImageH, { <<0, KernelSize \div 2>> }) >>]

\* the files a scanned folder holds: readable images with a bone outline
BatchFiles ==
    { [kind |-> "str", ext |-> ".dcm", readable |-> TRUE, ndim |-> 2,
       mask |-> ColumnMask] }

Folders == UNION { [1..n -> BatchFiles] : n \in 0..MaxItems }

\* BatchItem.__init__
BatchItem(path) ==
    [path |-> path, status |-> "Bekliyor", side |-> "", angle |-> 0,
     diagnosis |-> "", lines |-> << >>, error_msg |-> ""]

\* the analyzer instance of the single-image widget, and of worker w
WidgetAnalyzer == << "widget" >>

OwnAnalyzer(w) == << "worker", w >>

\* variant of worker_analyzer: the worker is handed the widget's analyzer
worker_analyzer_shared(passed, own) == WidgetAnalyzer

\* BatchWorker.__init__: self.analyzer = analyzer or PesPlanusAnalyzer()
worker_analyzer(passed, own) == IF passed # None THEN passed ELSE own

\* self.analyzer.analyze(item.path) as the worker sees it: a returned dict,
\* or an exception raised by the inference stack once the image is loaded
\* and a model is there
analyze_call(data, mdl) ==
    { [raised |-> FALSE, result |-> o.result] : o \in analyze(data, mdl) }
    \cup { [raised |-> TRUE, result |-> ErrorResult("exception")] :
             o \in { p \in analyze(data, mdl) : Len(p.trace) > 1 } }

\* analyze_call of every file a folder may hold, for a worker without a
\* model and for one with the model of the weights file
BatchOutcomes ==
    [f \in BatchFiles |->
       [m \in {"None", "v1"} |-> { o : o \in analyze_call(f, m) }]]

\* variant of item_after: an exception leaves the item as it was
item_after_uncaught(item, outcome) ==
    IF outcome.raised THEN item
    ELSE IF "error" \in DOMAIN outcome.result
    THEN [item EXCEPT !.status = "Hata", !.error_msg = outcome.result.error]
    ELSE [item EXCEPT !.status = "Tamamlandi",
                      !.angle = outcome.result.angle,
                      !.diagnosis = outcome.result.diagnosis,
                      !.lines = outcome.result.lines]

\* variant of item_after: a failure is also written into the diagnosis
item_after_diagnosis(item, outcome) ==
    IF outcome.raised
    THEN [item EXCEPT !.status = "Hata", !.error_msg = "exception",
                      !.diagnosis = "Hata"]
    ELSE IF "error" \in DOMAIN outcome.result
    THEN [item EXCEPT !.status = "Hata", !.error_msg = outcome.result.error,
                      !.diagnosis = "Hata"]
    ELSE [item EXCEPT !.status = "Tamamlandi",
                      !.angle = outcome.result.angle,
                      !.diagnosis = outcome.result.diagnosis,
                      !.lines = outcome.result.lines]

\* BatchWorker.run, the try block of one item: the item after the call
\* (no result of analyze carries "side", so item.side is left alone)
item_after(item, outcome) ==
    IF outcome.raised
    THEN [item EXCEPT !.status = "Hata", !.error_msg = "exception"]
    ELSE IF "error" \in DOMAIN outcome.result
    THEN [item EXCEPT !.status = "Hata", !.error_msg = outcome.result.error]
    ELSE [item EXCEPT !.status = "Tamamlandi",
                      !.angle = outcome.result.angle,
                      !.diagnosis = outcome.result.diagnosis,
                      !.lines = outcome.result.lines]

\* variant of already_done: only a completed item is skipped
already_done_completed_only(item) == item.status = "Tamamlandi"

\* BatchWorker.run, the skip test: the item was analysed before
already_done(item) == item.status = "Tamamlandi" \/ item.status = "Hata"

\* variant of loop_continues: the stop flag is not looked at
loop_continues_unstoppable(k, n) == k.i <= n

\* BatchWorker.run, the head of the loop: there is a next item and the
\* stop flag is not set
loop_continues(k, n) == k.i <= n /\ k.is_running

\* the UI thread is free to handle an event
UiFree == ~ui_wait /\ ui_infer # "running"

InitBatch ==
    /\ weights_file \in {"missing", "v1"}
    /\ constructed = FALSE
    /\ ctor_raised = FALSE
    /\ model = "None"
    /\ image_data = [kind |-> "other", ext |-> "-", readable |-> FALSE,
                     ndim |-> 2, mask |-> EmptyMask]
    /\ result = NoResult
    /\ trace = << >>
    /\ keypts = None
    /\ q_angle = 0
    /\ q_cat = "-"
    /\ q_geo = "-"
    /\ InitWidget
    /\ folder \in Folders
    /\ scan = 0
    /\ lists = [l \in ListIds |-> << >>]
    /\ ui_items = 0
    /\ worker = [w \in Workers |-> NoWorker]
    /\ ui_worker = 0
    /\ btn_start = FALSE
    /\ btn_stop = FALSE
    /\ ui_wait = FALSE
    /\ ui_infer = "unbuilt"

\* BatchAnalysisWidget.load_folder: a new empty list, the start button
\* disabled, the scanner thread started
LoadFolder ==
    /\ UiFree
    /\ scan = 0
    /\ ui_items + 1 \in ListIds
    /\ ui_items' = ui_items + 1
    /\ lists' = [lists EXCEPT ![ui_items + 1] = << >>]
    /\ scan' = 1
    /\ btn_start' = FALSE
    /\ UNCHANGED <<folder, worker, ui_worker, btn_stop, ui_wait, ui_infer>>
    /\ UNCHANGED <<analyzerVars, queryVars, widgetVars>>

\* BatchAnalysisWidget.on_file_found: the next file of the scan is
\* appended to the current list
OnFileFound ==
    /\ UiFree
    /\ scan \in 1..Len(folder)
    /\ lists' = [lists EXCEPT ![ui_items] = Append(@, BatchItem(folder[scan]))]
    /\ scan' = scan + 1
    /\ UNCHANGED <<folder, ui_items, worker, ui_worker, btn_start, btn_stop,
                   ui_wait, ui_infer>>
    /\ UNCHANGED <<analyzerVars, queryVars, widgetVars>>

\* BatchAnalysisWidget.on_scan_finished: the start button is enabled when
\* a file was found
OnScanFinished ==
    /\ UiFree
    /\ scan = Len(folder) + 1
    /\ scan' = 0
    /\ btn_start' = (btn_start \/ Len(folder) > 0)
    /\ UNCHANGED <<folder, lists, ui_items, worker, ui_worker, btn_stop,
                   ui_wait, ui_infer>>
    /\ UNCHANGED <<analyzerVars, queryVars, widgetVars>>

\* BatchAnalysisWidget.start_analysis: a new BatchWorker on the current
\* list, with an analyzer of its own, started at once
StartAnalysis ==
    /\ UiFree
    /\ btn_start
    /\ ui_worker + 1 \in DOMAIN worker
    /\ worker' = [worker EXCEPT ![ui_worker + 1] =
            [list |-> ui_items, pc |-> "start", i |-> 1,
             is_running |-> TRUE, total |-> 0,
             emitted |-> << >>,
             model |-> init_analyzer(weights_file, TRUE).model,
             inst |-> worker_analyzer(None, OwnAnalyzer(ui_worker + 1)),
             pending |-> FALSE, late |-> 0]]
    /\ ui_worker' = ui_worker + 1
    /\ btn_start' = FALSE
    /\ btn_stop' = TRUE
    /\ UNCHANGED <<folder, scan, lists, ui_items, ui_wait, ui_infer>>
    /\ UNCHANGED <<analyzerVars, queryVars, widgetVars>>

\* BatchAnalysisWidget.stop_analysis up to worker.wait(): the stop flag
\* is set and the UI thread blocks until the thread has ended
StopAnalysis ==
    /\ UiFree
    /\ btn_stop
    /\ ui_worker # 0
    /\ worker' = [worker EXCEPT ![ui_worker].is_running = FALSE]
    /\ ui_wait' = TRUE
    /\ UNCHANGED <<folder, scan, lists, ui_items, ui_worker, btn_start, btn_stop,
                   ui_infer>>
    /\ UNCHANGED <<analyzerVars, queryVars, widgetVars>>

\* worker.wait() returns and stop_analysis calls on_finished
StopReturns ==
    /\ ui_wait
    /\ worker[ui_worker].pc = "done"
    /\ ui_wait' = FALSE
    /\ btn_start' = TRUE
    /\ btn_stop' = FALSE
    /\ UNCHANGED <<folder, scan, lists, ui_items, worker, ui_worker, ui_infer>>
    /\ UNCHANGED <<analyzerVars, queryVars, widgetVars>>

\* BatchAnalysisWidget.on_finished, as the slot of a worker's finished_all
OnFinished(w) ==
    /\ UiFree
    /\ worker[w].pending
    /\ worker' = [worker EXCEPT ![w].pending = FALSE]
    /\ btn_start' = TRUE
    /\ btn_stop' = FALSE
    /\ UNCHANGED <<folder, scan, lists, ui_items, ui_worker, ui_wait, ui_infer>>
    /\ UNCHANGED <<analyzerVars, queryVars, widgetVars>>

\* PesPlanusWidget.run_ai_analysis builds its analyzer on first use and
\* enters self.analyzer.analyze on the UI thread
UiInferenceBegin ==
    /\ UiFree
    /\ ui_infer' = "running"
    /\ UNCHANGED <<folder, scan, lists, ui_items, worker, ui_worker, btn_start,
                   btn_stop, ui_wait>>
    /\ UNCHANGED <<analyzerVars, queryVars, widgetVars>>

\* the analyze call of run_ai_analysis returns
UiInferenceEnd ==
    /\ ui_infer = "running"
    /\ ui_infer' = "idle"
    /\ UNCHANGED <<folder, scan, lists, ui_items, worker, ui_worker, btn_start,
                   btn_stop, ui_wait>>
    /\ UNCHANGED <<analyzerVars, queryVars, widgetVars>>

\* BatchWorker.run is entered on the worker's thread: total = len(items)
WorkerRun(w) ==
    /\ worker[w].pc = "start"
    /\ worker' = [worker EXCEPT ![w].pc = "check",
                                ![w].total = Len(lists[worker[w].list])]
    /\ UNCHANGED <<folder, scan, lists, ui_items, ui_worker, btn_start,
                   btn_stop, ui_wait, ui_infer>>
    /\ UNCHANGED <<analyzerVars, queryVars, widgetVars>>

\* BatchWorker.run at the head of the loop: leave the loop and emit
\* finished_all, or skip an item that is already done and emit progress,
\* or mark the item as being processed and call analyze
WorkerCheck(w) ==
    LET k == worker[w]
        n == Len(lists[k.list])
    IN  /\ k.pc = "check"
        /\ IF ~loop_continues(k, n)
           THEN /\ worker' = [worker EXCEPT
                      ![w].pc = "done",
                      ![w].pending = TRUE,
                      ![w].emitted = Append(@, << "finished_all" >>)]
                /\ UNCHANGED lists
           ELSE IF already_done(lists[k.list][k.i])
           THEN /\ worker' = [worker EXCEPT
                      ![w].i = @ + 1,
                      ![w].emitted = Append(@, << "progress", k.i, k.total >>)]
                /\ UNCHANGED lists
           ELSE /\ worker' = [worker EXCEPT ![w].pc = "analyze"]
                /\ lists' = [lists EXCEPT ![k.list][k.i].status = "Isleniyor"]
        /\ UNCHANGED <<folder, scan, ui_items, ui_worker, btn_start, btn_stop,
                       ui_wait, ui_infer>>
        /\ UNCHANGED <<analyzerVars, queryVars, widgetVars>>

\* variant of signals_after: finished_all emitted inside the loop
signals_after_finishing(i, total) ==
    << << "item_finished", i >>, << "progress", i, total >>,
       << "finished_all" >> >>

\* BatchWorker.run after the try block: item_finished.emit(item.path,
\* item), then progress.emit(i + 1, total)
signals_after(i, total) ==
    << << "item_finished", i >>, << "progress", i, total >> >>

\* BatchWorker.run: the analyze call of the current item returns or
\* raises, the item gets its final status, and the two signals of the
\* item are emitted
WorkerAnalyze(w) ==
    LET k == worker[w]
    IN  /\ k.pc = "analyze"
        /\ \E o \in BatchOutcomes[lists[k.list][k.i].path][k.model] :
             lists' = [lists EXCEPT ![k.list][k.i] = item_after(@, o)]
        /\ worker' = [worker EXCEPT
              ![w].pc = "check",
              ![w].i = @ + 1,
              ![w].emitted = @ \o signals_after(k.i, k.total),
              ![w].late = IF k.is_running THEN @ ELSE @ + 1]
        /\ UNCHANGED <<folder, scan, ui_items, ui_worker, btn_start,
                       btn_stop, ui_wait, ui_infer>>
        /\ UNCHANGED <<analyzerVars, queryVars, widgetVars>>

NextBatch ==
    \/ LoadFolder
    \/ OnFileFound
    \/ OnScanFinished
    \/ StartAnalysis
    \/ StopAnalysis
    \/ StopReturns
    \/ UiInferenceBegin
    \/ UiInferenceEnd
    \/ \E w \in Workers :
         OnFinished(w) \/ WorkerRun(w) \/ WorkerCheck(w) \/ WorkerAnalyze(w)

SpecBatch == InitBatch /\ [][NextBatch]_vars

---------------------------------------------------------------------------
(* The batch tab with a third start: the batch tab alone, a loaded model, *)
(* a folder with at most one image                                        *)

\* the worker threads the batch tab may start when it starts three
ManyWorkers == {1, 2, 3}

InitRestart ==
    /\ weights_file = "v1"
    /\ constructed = FALSE
    /\ ctor_raised = FALSE
    /\ model = "None"
    /\ image_data = [kind |-> "other", ext |-> "-", readable |-> FALSE,
                     ndim |-> 2, mask |-> EmptyMask]
    /\ result = NoResult
    /\ trace = << >>
    /\ keypts = None
    /\ q_angle = 0
    /\ q_cat = "-"
    /\ q_geo = "-"
    /\ InitWidget
    /\ folder \in { f \in Folders : Len(f) <= 1 }
    /\ scan = 0
    /\ lists = [l \in ListIds |-> << >>]
    /\ ui_items = 0
    /\ worker = [w \in ManyWorkers |-> NoWorker]
    /\ ui_worker = 0
    /\ btn_start = FALSE
    /\ btn_stop = FALSE
    /\ ui_wait = FALSE
    /\ ui_infer = "unbuilt"

NextRestart ==
    \/ LoadFolder
    \/ OnFileFound
    \/ OnScanFinished
    \/ StartAnalysis
    \/ StopAnalysis
    \/ StopReturns
    \/ \E w \in ManyWorkers :
         OnFinished(w) \/ WorkerRun(w) \/ WorkerCheck(w) \/ WorkerAnalyze(w)

SpecRestart == InitRestart /\ [][NextRestart]_vars

---------------------------------------------------------------------------
(* Classification queries: both classifiers applied to one angle *)

InitClassify ==
    /\ weights_file = "missing"
    /\ constructed = FALSE
    /\ ctor_raised = FALSE
    /\ model = "None"
    /\ image_data = [kind |-> "other", ext |-> "-", readable |-> FALSE,
                     ndim |-> 2, mask |-> EmptyMask]
    /\ result = NoResult
    /\ trace = << >>
    /\ keypts = None
    /\ q_angle \in (0 - QueryBelow)..QueryMax
    /\ q_cat = "-"
    /\ q_geo = "-"
    /\ InitWidget
    /\ InitBatchIdle

Classify ==
    /\ q_cat = "-"
    /\ q_cat' = analyze_classify(q_angle).cat
    /\ q_geo' = get_angle_classification(q_angle, "calcaneal").cat
    /\ UNCHANGED q_angle
    /\ UNCHANGED analyzerVars
    /\ UNCHANGED widgetVars
    /\ UNCHANGED batchVars

NextClassify == Classify

SpecClassify == InitClassify /\ [][NextClassify]_vars

---------------------------------------------------------------------------
(* Vocabulary of the properties *)

SuccessKeys == {"angle", "diagnosis", "raw_color", "lines", "visualized_image"}

Called == result # NoResult

IsError == "error" \in DOMAIN result

Success == "angle" \in DOMAIN result

\* the result carries something a caller can tell from a measurement
Distinguishable == IsError \/ (DOMAIN result \ SuccessKeys) # {}

Ran(name) == \E i \in 1..Len(trace) : trace[i].stage = name

HasContour == image_data.mask.contours # << >>

\* a path the loader cannot read or decode, or neither a path nor an array
BadInput ==
    \/ (image_data.kind = "str" /\ ~image_data.readable)
    \/ image_data.kind \notin {"str", "ndarray"}

\* the four diagnostic categories, under the labels analyze and
\* get_angle_classification print for them
CategoryOf(label) ==
    IF label \in {"Sinirda (Borderline)", "Borderline"} THEN "Borderline"
    ELSE label

Categories == {"Pes Planus", "Borderline", "Normal", "Pes Cavus"}

\* the mask flipped left to right
Mirror(mask) ==
    [mask EXCEPT !.contours =
        [i \in DOMAIN mask.contours |->
            { << mask.w - 1 - p[1], p[2] >> : p \in mask.contours[i] }]]

---------------------------------------------------------------------------
(* Properties *)

\* C1: the category analyze assigns is Pes Planus below 15 degrees,
\* Borderline from 15 up to but not including 20, Normal from 20 to 30
\* inclusive and Pes Cavus above 30, for every angle, also outside 0..90;
\* 15.0 is Borderline, 20.0 and 30.0 are Normal, 30.1 is Pes Cavus.
C1_CategoryThresholds ==
    q_cat # "-" =>
        /\ CategoryOf(q_cat) \in Categories
        /\ (q_angle < 1500) = (CategoryOf(q_cat) = "Pes Planus")
        /\ (1500 <= q_angle /\ q_angle < 2000) = (CategoryOf(q_cat) = "Borderline")
        /\ (2000 <= q_angle /\ q_angle <= 3000) = (CategoryOf(q_cat) = "Normal")
        /\ (q_angle > 3000) = (CategoryOf(q_cat) = "Pes Cavus")
        /\ (q_angle = 1500 => CategoryOf(q_cat) = "Borderline")
        /\ (q_angle \in {2000, 3000} => CategoryOf(q_cat) = "Normal")
        /\ (q_angle = 3010 => CategoryOf(q_cat) = "Pes Cavus")

C1_Witness == q_angle = 3010 /\ q_cat = "Pes Cavus"

\* C2: for every angle, analyze's category and the category
\* get_angle_classification(angle, "calcaneal") gives are the same one of
\* the four categories.
C2_SameCategory ==
    q_cat # "-" =>
        /\ CategoryOf(q_cat) = CategoryOf(q_geo)
        /\ CategoryOf(q_geo) \in Categories

\* C3: for a mask with a bone contour the returned angle lies in 0..90
\* degrees, and it is exactly 90 when Point A and Point B share their x.
C3_AngleAcute ==
    (Success /\ HasContour) =>
        /\ 0 <= result.angle
        /\ result.angle <= 9000
        /\ (result.lines[1][2][1] - result.lines[1][1][1] = 0
               => result.angle = 9000)

C3_Witness ==
    /\ Success
    /\ HasContour
    /\ result.lines[1][2][1] = result.lines[1][1][1]
    /\ result.lines[1][2][2] < result.lines[1][1][2]
    /\ result.angle = 9000

\* C4: the angle computed for a mask and the angle computed for its
\* left-right mirror image agree within rounding (0.1 degree).
C4_MirrorInvariant ==
    (Success /\ HasContour) =>
        \E o \in PitchOutcomes[Mirror(image_data.mask)] :
            Abs(o.angle - result.angle) <= 10

\* C5: when the mask leaves no contour, analyze returns a result that is
\* distinguishable from a measurement (an error or an explicit flag), not
\* angle 0.0 with a diagnosis.
C5_NoBoneIsError ==
    (Ran("analyze_calcaneal_pitch") /\ ~HasContour) =>
        /\ Distinguishable
        /\ ~(Success /\ result.angle = 0 /\ "diagnosis" \in DOMAIN result
                /\ ~IsError /\ (DOMAIN result \ SuccessKeys) = {})

\* C6: when the left or the right set of hull vertices is empty, the
\* result is distinguishable from a measurement.
C6_EmptyHalfIsError ==
    (Ran("analyze_calcaneal_pitch") /\ HasContour) =>
        LET c    == largest_contour(image_data.mask.contours)
            hull == convexHull(c)
        IN  (left_half(hull, mid_x_of(c)) = {}
                \/ right_half(hull, mid_x_of(c)) = {})
            => Distinguishable

\* C7: construction never raises and leaves no model when the weights
\* file is missing or does not load; an analyzer without a model answers
\* every call on a readable input with "model unavailable" and runs
\* neither inference nor geometry; and it never gets a model later.
C7_ModelUnavailable ==
    /\ [](~ctor_raised)
    /\ []((constructed /\ model = "None" /\ Called /\ ~BadInput) =>
            /\ result = ErrorResult("Model yuklu degil")
            /\ ~Ran("preprocess")
            /\ ~Ran("forward")
            /\ ~Ran("resize_mask")
            /\ ~Ran("analyze_calcaneal_pitch")
            /\ ~Ran("classify"))
    /\ [][(~constructed /\ constructed'
             /\ weights_file \in {"missing", "corrupt"}) => model' = "None"]_vars
    /\ [][(constructed /\ model = "None") => model' = "None"]_vars

C7_Witness ==
    /\ constructed
    /\ model = "None"
    /\ weights_file \in {"v1", "v2"}
    /\ ~BadInput
    /\ HasContour
    /\ result = ErrorResult("Model yuklu degil")

\* C8: an unreadable path and an input that is neither path nor array
\* give an error result without angle, diagnosis or lines; the message is
\* the input error also when no model is loaded, the model is not run;
\* and a success result carries no error message.
C8_InputErrors ==
    Called =>
        /\ (BadInput =>
              /\ DOMAIN result = {"error"}
              /\ result.error # "Model yuklu degil"
              /\ (image_data.kind = "str"
                    => result.error = "Goruntu okunamadi: <path>")
              /\ (image_data.kind \notin {"str", "ndarray"}
                    => result.error = "Gecersiz giris formati")
              /\ ~Ran("preprocess")
              /\ ~Ran("forward"))
        /\ (Success => ~IsError)
        /\ (IsError => DOMAIN result \cap {"angle", "diagnosis", "lines"} = {})

C8_Witness ==
    /\ Called
    /\ model = "None"
    /\ image_data.kind = "str"
    /\ ~image_data.readable
    /\ result = ErrorResult("Goruntu okunamadi: <path>")

\* C9: once the analyzer is constructed, no step changes its model, and
\* every forward pass runs on that model.
C9_ModelReadOnly ==
    /\ [][constructed => model' = model]_vars
    /\ [](\A i \in 1..Len(trace) :
            trace[i].stage = "forward" => trace[i].on = model)

C9_Witness ==
    /\ constructed
    /\ model = "v1"
    /\ weights_file = "v2"
    /\ Success
    /\ Ran("forward")

\* C10: a success result carries exactly two segments, the calcaneus
\* segment (Point A, Point B) first and the ground segment second; the
\* first segment's endpoints, and the overlay points derived from them,
\* are the Point A and Point B the angle was computed from (the origin
\* twice when there was no contour).
C10_LinesRoundTrip ==
    Success =>
        /\ Len(result.lines) = 2
        /\ (keypts # None =>
              /\ result.lines[1] = keypts
              /\ canvas_points(result.lines).calc_points = keypts
              /\ result.lines[2][1][2] = keypts[1][2]
              /\ result.lines[2][2][2] = keypts[1][2]
              /\ keypts[1] \in {result.lines[2][1], result.lines[2][2]})
        /\ (keypts = None =>
              /\ result.lines[1] = << <<0, 0>>, <<0, 0>> >>
              /\ result.lines[2] = << <<0, 0>>, <<0, 0>> >>)

C10_Witness ==
    /\ Success
    /\ keypts # None
    /\ keypts[1] # keypts[2]
    /\ result.lines[1] = keypts
    /\ result.lines[2] # result.lines[1]
    /\ canvas_points(result.lines).calc_points = keypts

\* the absolute-slope angle of the segment p -> q, in hundredths
AcuteAngle(p, q) ==
    IF q[1] = p[1] THEN 9000
    ELSE AtanTable2[Abs(q[2] - p[2]) + 1][Abs(q[1] - p[1])]

\* the overlay of a result is on the canvas
MarkersShown == Len(calc_points) = 2 /\ Len(ground_points) = 2

\* C11: whenever the markers of a result are on the canvas, the recompute
\* (on_points_updated -> calculate_angle) has completed without an
\* exception; for the unmodified pair calculate_angle on the two segments
\* equals the angle analyze reported, and after a move the label shows the
\* absolute-slope angle of the calcaneus segment (within rounding).
C11_RecomputeSameFormula ==
    (MarkersShown /\ Success) =>
        /\ slot_exc = ""
        /\ (drags = 0 =>
              Abs(calculate_angle(ground_points[1], ground_points[2],
                                  calc_points[1], calc_points[2])
                    - result.angle) <= 5)
        /\ (drags > 0 =>
              /\ lbl_angle # << >>
              /\ Abs(lbl_angle[1]
                       - AcuteAngle(calc_points[1], calc_points[2])) <= 5)

\* the statuses an item is left with once its turn is over
FinalStatus == {"Tamamlandi", "Hata"}

\* worker w has left its loop without a stop request
RanToEnd(w) == worker[w].pc = "done" /\ worker[w].is_running

\* the step in which worker w's analyze call of item i ends
AnalysisEnds(w) == worker[w].pc = "analyze" /\ worker'[w].pc = "check"

\* the end of an analysis leaves the item with a final status, a failure
\* with its message, touches no other item, and the worker stays in its loop
C12_Step ==
    \A w \in Workers :
      AnalysisEnds(w) =>
        LET l == worker[w].list
            i == worker[w].i
        IN  /\ lists'[l][i].status \in FinalStatus
            /\ (lists'[l][i].status = "Hata" => lists'[l][i].error_msg # "")
            /\ \A m \in ListIds :
                 \A j \in 1..Len(lists[m]) :
                   (m # l \/ j # i) => lists'[m][j] = lists[m][j]
            /\ worker'[w].i = i + 1

\* the step in which worker w leaves its loop
LoopEnds(w) == worker[w].pc = "check" /\ worker'[w].pc = "done"

\* a worker that was not stopped leaves its loop only when no item is left
C12_End ==
    \A w \in Workers :
      (LoopEnds(w) /\ worker[w].is_running) =>
         worker[w].i = Len(lists[worker[w].list]) + 1

\* every item a worker has gone past has a final status
C12_State ==
    \A w \in Workers :
      worker[w].pc # "none" =>
        \A j \in 1..(worker[w].i - 1) :
          lists[worker[w].list][j].status \in FinalStatus

\* C12: an item whose analysis returns an error or raises does not abort
\* the batch run: the failure is recorded on that item only (status 'Hata'
\* and its message), and unless a stop was requested every later item is
\* still visited and analysed.
C12_FailureIsolated == []C12_State /\ [][C12_Step /\ C12_End]_vars

\* a run that was not stopped has ended with an exception recorded on the
\* first item and a measurement on the second
C12_Witness ==
    \E w \in Workers :
      /\ RanToEnd(w)
      /\ Len(lists[worker[w].list]) >= 2
      /\ lists[worker[w].list][1].status = "Hata"
      /\ lists[worker[w].list][1].error_msg = "exception"
      /\ lists[worker[w].list][2].status = "Tamamlandi"

\* a stop request only sets the flag of the worker: the worker's position,
\* its signals and every item are as before
C13_StopStep ==
    \A w \in Workers :
      (worker[w].is_running /\ ~worker'[w].is_running /\ worker[w].pc # "none")
        => /\ worker' = [worker EXCEPT ![w].is_running = FALSE]
           /\ lists' = lists

\* an analysis in progress ends in no other way than by its own return,
\* stopped or not: the item then has a final status and item_finished and
\* progress of the item are the signals emitted last
C13_InFlight ==
    \A w \in Workers :
      worker[w].pc = "analyze" =>
        /\ worker'[w].pc \in {"analyze", "check"}
        /\ worker'[w].i \in {worker[w].i, worker[w].i + 1}
        /\ AnalysisEnds(w) =>
             /\ lists'[worker[w].list][worker[w].i].status \in FinalStatus
             /\ worker'[w].emitted =
                  worker[w].emitted
                    \o << << "item_finished", worker[w].i >>,
                          << "progress", worker[w].i, worker[w].total >> >>

\* a stopped worker at the head of its loop starts no item
C13_NoLaterItem ==
    \A w \in Workers :
      (worker[w].pc = "check" /\ ~worker[w].is_running)
        => /\ worker'[w].pc \in {"check", "done"}
           /\ worker'[w].i = worker[w].i

\* C13: cancellation is cooperative: stop() never interrupts the analysis
\* in progress; the in-flight item finishes and gets its final status and
\* its item_finished and progress signals, and after stop() at most that
\* one item is analysed and no later item is started.
C13_CooperativeStop ==
    /\ [](\A w \in Workers : worker[w].late <= 1)
    /\ [][C13_StopStep /\ C13_InFlight /\ C13_NoLaterItem]_vars

\* a worker was stopped during the analysis of an item that is not the
\* last: the item was finished and the next one was never started
C13_Witness ==
    \E w \in Workers :
      /\ worker[w].pc = "done"
      /\ ~worker[w].is_running
      /\ worker[w].late = 1
      /\ worker[w].i <= Len(lists[worker[w].list])
      /\ lists[worker[w].list][worker[w].i - 1].status \in FinalStatus
      /\ lists[worker[w].list][worker[w].i].status = "Bekliyor"

\* the progress signals among the signals a worker has emitted, in order
RECURSIVE ProgressOf(_)
ProgressOf(sigs) ==
    IF sigs = << >> THEN << >>
    ELSE IF Head(sigs)[1] = "progress"
         THEN << Head(sigs) >> \o ProgressOf(Tail(sigs))
         ELSE ProgressOf(Tail(sigs))

\* progress was emitted once for each item gone past, in increasing order
\* and with the total of the run
C14_OncePerItem ==
    \A w \in Workers :
      LET p == ProgressOf(worker[w].emitted)
      IN  /\ Len(p) = IF worker[w].pc = "none" THEN 0 ELSE worker[w].i - 1
          /\ \A n \in 1..Len(p) : p[n] = << "progress", n, worker[w].total >>

\* item_finished of an item is directly followed by progress of that item
C14_AfterItemFinished ==
    \A w \in Workers :
      \A n \in 1..Len(worker[w].emitted) :
        worker[w].emitted[n][1] = "item_finished" =>
          /\ n < Len(worker[w].emitted)
          /\ worker[w].emitted[n + 1] =
               << "progress", worker[w].emitted[n][2], worker[w].total >>

\* a run that was not stopped and emitted progress ended with (total, total)
C14_LastIsTotal ==
    \A w \in Workers :
      LET p == ProgressOf(worker[w].emitted)
      IN  (RanToEnd(w) /\ p # << >>) =>
             p[Len(p)] = << "progress", worker[w].total, worker[w].total >>

\* C14: progress(i+1, total) is emitted exactly once after each item the
\* worker visits, analysed or skipped, in strictly increasing order, and
\* for an analysed item after its item_finished; when no stop is requested
\* the last progress emitted is (total, total).
C14_ProgressPerItem ==
    C14_OncePerItem /\ C14_AfterItemFinished /\ C14_LastIsTotal

\* the analyzer instances that exist
Analyzers == { WidgetAnalyzer } \cup { OwnAnalyzer(w) : w \in Workers }

\* the threads that are inside analyze of analyzer instance a
InFlight(a) ==
    { << "BatchWorker", w >> :
        w \in { v \in Workers :
                  worker[v].pc = "analyze" /\ worker[v].inst = a } }
      \cup (IF a = WidgetAnalyzer /\ ui_infer = "running"
            THEN { << "ui", 0 >> } ELSE { })

\* C15: at any moment at most one inference is in progress on any one
\* analyzer instance, for the analysis started from the widget's button and
\* for the batch workers, under every interleaving of UI actions and worker
\* steps.
C15_OneInferencePerInstance ==
    \A a \in Analyzers : Cardinality(InFlight(a)) <= 1

\* the widget and two batch workers are inside analyze at the same moment,
\* each on an analyzer of its own
C15_Witness ==
    /\ ui_infer = "running"
    /\ \A w \in Workers : worker[w].pc = "analyze"
    /\ \A a \in Analyzers : Cardinality(InFlight(a)) = 1

\* the arrays a caller of analyze or of analyze_calcaneal_pitch passes in
InputArrays == { "image_data", "prediction_mask", image_array(image_data) }

GroundOf(res) == res.lines[2]

FarEnd(g, pa) == IF g[1] = pa THEN g[2] ELSE g[1]

\* the far end is GroundLen pixels from Point A, or nearer and on the
\* border of the image
FullOrCut(g, pa, w_img) ==
    LET len == Abs(FarEnd(g, pa)[1] - pa[1])
    IN  \/ len = GroundLen
        \/ /\ len < GroundLen
           /\ FarEnd(g, pa)[1] \in {0, w_img - 1, w_img}

Deepest(half) == { p \in half : \A q \in half : q[2] <= p[2] }

\* the sum of the x of a set of points
RECURSIVE TotalX(_)
TotalX(points) ==
    IF points = {} THEN 0
    ELSE LET p == CHOOSE q \in points : TRUE
         IN  p[1] + TotalX(points \ {p})

\* the landmark of a non-empty half: the deepest level, and the mean of
\* the x of the points on it, truncated
Landmark(half) ==
    LET d == Deepest(half)
        n == Cardinality(d)
        s == TotalX(d)
    IN  << CHOOSE a \in 0..s : a * n <= s /\ s < (a + 1) * n,
           MaxOf({ p[2] : p \in half }) >>

\* C18: for each half the landmark has the maximum y of the half's hull
\* points and the truncated mean of the x of all its hull points at that
\* y, and it is the same for every order in which the hull points are
\* listed.
C18_LandmarkPerHalf ==
    (Success /\ keypts # None /\ image_data.mask \in ListedMasks) =>
      LET h == HalfTable[image_data.mask]
          c == CornerOutcomes[image_data.mask]
      IN  /\ h.left # {} => c.left = { Landmark(h.left) }
          /\ h.right # {} => c.right = { Landmark(h.right) }
          /\ (h.left # {} /\ h.right # {})
               => keypts[1] \in { Landmark(h.left), Landmark(h.right) }

\* the heel half has two hull points at its deepest level and Point A is
\* their mean, which is not a hull point
C18_Witness ==
    /\ Success
    /\ keypts # None
    /\ image_data.mask \in ListedMasks
    /\ LET h == HalfTable[image_data.mask]
       IN  /\ Cardinality(Deepest(h.left)) >= 2
           /\ keypts[1] = Landmark(h.left)
           /\ keypts[1] \notin h.left

\* the last call measured a mask whose halves are tabulated, and both
\* halves of the hull have points
BothHalves ==
    /\ Success
    /\ keypts # None
    /\ image_data.mask \in ListedMasks
    /\ HalfTable[image_data.mask].left # {}
    /\ HalfTable[image_data.mask].right # {}

\* C19: orientation is decided for every image: the half whose landmark
\* has the larger y is the heel side and supplies Point A, the other half
\* is the toe side and holds Point B, whether the heel is left or right;
\* on equal y the left half is the heel.
C19_Orientation ==
    /\ (Success /\ keypts # None /\ image_data.mask \in ListedMasks) =>
          \A p \in HalfTable[image_data.mask].left
                     \cup HalfTable[image_data.mask].right :
            p[2] <= keypts[1][2]
    /\ BothHalves =>
          LET h == HalfTable[image_data.mask]
              L == Landmark(h.left)
              R == Landmark(h.right)
          IN  /\ L[2] >= R[2] => (keypts[1] = L /\ keypts[2] \in h.right)
              /\ L[2] < R[2] => (keypts[1] = R /\ keypts[2] \in h.left)

\* the two landmarks are equally deep and differ: Point A is the left one
C19_Witness ==
    /\ BothHalves
    /\ LET h == HalfTable[image_data.mask]
       IN  /\ Landmark(h.left)[2] = Landmark(h.right)[2]
           /\ Landmark(h.left) # Landmark(h.right)
           /\ keypts[1] = Landmark(h.left)

\* C20: Point B is re-selected among the hull points of the toe half: a
\* point with the maximum x + y of the right half when the toes are on the
\* right, a point with the minimum x - y of the left half when they are on
\* the left; it need not be the deepest point of that half.
C20_PointB ==
    BothHalves =>
      LET h  == HalfTable[image_data.mask]
          pb == keypts[2]
      IN  IF Landmark(h.left)[2] >= Landmark(h.right)[2]
          THEN /\ pb \in h.right
               /\ \A q \in h.right : q[1] + q[2] <= pb[1] + pb[2]
          ELSE /\ pb \in h.left
               /\ \A q \in h.left : pb[1] - pb[2] <= q[1] - q[2]

\* the toes are on the right and Point B lies above the deepest level of
\* the right half
C20_Witness ==
    /\ BothHalves
    /\ LET h == HalfTable[image_data.mask]
       IN  /\ Landmark(h.left)[2] >= Landmark(h.right)[2]
           /\ keypts[2] \in h.right
           /\ keypts[2][2] < Landmark(h.right)[2]

\* p lies on the outline of the convex polygon with the given vertices: it
\* is a vertex, or it lies on the segment between two vertices that has
\* no vertex strictly on one of its sides
OnHull(p, hull) ==
    \/ p \in hull
    \/ \E a \in hull : \E b \in hull \ {a} :
         /\ Cross(a, b, p) = 0
         /\ Min2(a[1], b[1]) <= p[1] /\ p[1] <= Max2(a[1], b[1])
         /\ Min2(a[2], b[2]) <= p[2] /\ p[2] <= Max2(a[2], b[2])
         /\ \A r \in hull : Cross(a, b, r) >= 0

\* p sits where the landmark of the half sits: on the half's deepest
\* level, between the outermost hull points of that level
AtDeepestOf(p, half) ==
    /\ half # {}
    /\ p[2] = MaxOf({ q[2] : q \in half })
    /\ MinOf({ q[1] : q \in Deepest(half) }) <= p[1]
    /\ p[1] <= MaxOf({ q[1] : q \in Deepest(half) })

\* C21: after landmark selection Point A and Point B both lie on the
\* convex hull of the cleaned mask; Point A sits on the deepest level of
\* one half (the heel half), between that level's outermost hull points,
\* and Point B is a hull vertex of the other half.
C21_OnHullOppositeHalves ==
    (Success /\ keypts # None /\ image_data.mask \in ListedMasks) =>
      LET h    == HalfTable[image_data.mask]
          hull == h.left \cup h.right
          pa   == keypts[1]
          pb   == keypts[2]
      IN  /\ OnHull(pa, hull)
          /\ pb \in hull
          /\ \/ AtDeepestOf(pa, h.left) /\ pb \in h.right
             \/ AtDeepestOf(pa, h.right) /\ pb \in h.left

\* the same for the masks whose hull has points in both halves
C21_BothHalves == BothHalves => C21_OnHullOppositeHalves

\* p lies inside the bounding box of the contour
InBox(p, contour) ==
    /\ \E q \in contour : q[1] <= p[1]
    /\ \E q \in contour : q[1] >= p[1]
    /\ \E q \in contour : q[2] <= p[2]
    /\ \E q \in contour : q[2] >= p[2]

\* C22: exactly one contour, one with the largest enclosed area among the
\* external contours of the cleaned mask, is passed to keypoint
\* extraction: Point A and Point B both come from that contour; when there
\* is no contour no keypoint is extracted and the result has angle 0.0 and
\* the calcaneus and ground segments both ((0,0),(0,0)).
C22_LargestContourOnly ==
    /\ (Success /\ HasContour) =>
          /\ keypts # None
          /\ \E i \in DOMAIN image_data.mask.contours :
               LET cs == image_data.mask.contours
               IN  /\ Len(cs) > 1 =>
                        \A j \in DOMAIN cs :
                          contourArea2(cs[j]) <= contourArea2(cs[i])
                   /\ InBox(keypts[1], cs[i])
                   /\ keypts[2] \in cs[i]
    /\ (Ran("analyze_calcaneal_pitch") /\ ~HasContour) =>
          /\ keypts = None
          /\ ~Ran("draw")
          /\ result.angle = 0
          /\ result.lines = << << <<0, 0>>, <<0, 0>> >>,
                               << <<0, 0>>, <<0, 0>> >> >>

\* the mask has two regions, the second is the larger one, and both
\* points were taken from it
C22_Witness ==
    /\ Success
    /\ Len(image_data.mask.contours) = 2
    /\ contourArea2(image_data.mask.contours[1])
          < contourArea2(image_data.mask.contours[2])
    /\ keypts # None
    /\ keypts[1] # keypts[2]
    /\ InBox(keypts[1], image_data.mask.contours[2])
    /\ keypts[2] \in image_data.mask.contours[2]

\* C23: for every hull and both orientations Point A is never higher in
\* the image than Point B: PointA.y >= PointB.y, so dy = PointB.y -
\* PointA.y is never positive.
C23_PointANotHigher ==
    (Success /\ keypts # None) =>
      /\ keypts[1][2] >= keypts[2][2]
      /\ result.lines[1][2][2] - result.lines[1][1][2] <= 0

\* the heel is on the right and Point A is strictly deeper than Point B
C23_Witness ==
    /\ Success
    /\ keypts # None
    /\ keypts[2][1] < keypts[1][1]
    /\ result.lines[1][2][2] - result.lines[1][1][2] < 0

\* C24: whenever both halves of the hull are non-empty, Point A and Point
\* B lie strictly on opposite sides of the split (heel left: PointA.x <
\* mid_x <= PointB.x; heel right: PointB.x < mid_x <= PointA.x), so they
\* are distinct points and dx is not 0: the dx = 0 branch, which yields 90
\* degrees, is not taken.
C24_OppositeSides ==
    BothHalves =>
      LET h     == HalfTable[image_data.mask]
          mid_x == h.mid_x
          pa    == keypts[1]
          pb    == keypts[2]
      IN  /\ IF Landmark(h.left)[2] >= Landmark(h.right)[2]
             THEN pa[1] < mid_x /\ mid_x <= pb[1]
             ELSE pb[1] < mid_x /\ mid_x <= pa[1]
          /\ pa # pb
          /\ result.lines[1][2][1] - result.lines[1][1][1] # 0

\* the heel is on the right: Point B is left of the split, Point A on it
\* or right of it
C24_Witness ==
    /\ BothHalves
    /\ keypts[2][1] < HalfTable[image_data.mask].mid_x
    /\ HalfTable[image_data.mask].mid_x <= keypts[1][1]
    /\ result.angle > 0

\* C25: both endpoints of the returned ground segment are pixel
\* coordinates of the image, 0 <= x <= width - 1 and 0 <= y <= height - 1,
\* and the segment is ordered left to right, for every position of Point A
\* and both orientations.
C25_GroundInsideImage ==
    (Success /\ keypts # None) =>
      LET g == GroundOf(result)
      IN  /\ \A n \in 1..2 :
               /\ 0 <= g[n][1] /\ g[n][1] <= image_data.mask.w - 1
               /\ 0 <= g[n][2] /\ g[n][2] <= image_data.mask.h - 1
          /\ g[1][1] <= g[2][1]

\* worker w has been started and has not yet emitted finished_all
Running(w) == worker[w].pc \in {"start", "check", "analyze"}

\* C30: at most one batch worker is running at any time: while a worker
\* that start_analysis started has not finished, no sequence of UI
\* operations starts a second worker or replaces the widget's reference to
\* the first.
C30_OneWorkerAtATime ==
    \A w \in Workers :
      Running(w) =>
        /\ ui_worker = w
        /\ \A v \in Workers \ {w} : ~Running(v)

\* in every list the items that are no longer waiting come first
C26_Prefix ==
    \A l \in ListIds :
      \A j \in 1..Len(lists[l]) :
        lists[l][j].status # "Bekliyor" =>
          \A n \in 1..(j - 1) : lists[l][n].status # "Bekliyor"

\* when a worker leaves its loop and emits finished_all, every item of its
\* list is waiting or has a final status
C26_AtEnd ==
    \A w \in DOMAIN worker :
      LoopEnds(w) =>
        \A j \in 1..Len(lists'[worker[w].list]) :
          lists'[worker[w].list][j].status \in {"Bekliyor"} \cup FinalStatus

\* C26: when a batch run ends (finished_all emitted) no item is left in
\* status 'Isleniyor': every item is 'Bekliyor', 'Tamamlandi' or 'Hata';
\* and the items that are no longer 'Bekliyor' form a prefix of the list,
\* whether or not stop() was called.
C26_NoItemLeftInProgress == []C26_Prefix /\ [][C26_AtEnd]_vars

\* worker w is at the head of its loop, not stopped, and the item it has
\* reached has a final status
AtFinishedItem(w) ==
    /\ worker[w].pc = "check"
    /\ worker[w].is_running
    /\ worker[w].i <= Len(lists[worker[w].list])
    /\ lists[worker[w].list][worker[w].i].status \in FinalStatus

\* a worker at an item with a final status does not call analyze; when it
\* moves on, the item is as before and progress is the only signal emitted
C27_Step ==
    \A w \in DOMAIN worker :
      AtFinishedItem(w) =>
        /\ worker'[w].pc # "analyze"
        /\ worker'[w] # worker[w] =>
             lists'[worker[w].list][worker[w].i]
                = lists[worker[w].list][worker[w].i]
        /\ worker'[w].i # worker[w].i =>
             /\ worker'[w].i = worker[w].i + 1
             /\ lists' = lists
             /\ worker'[w].emitted =
                  Append(worker[w].emitted,
                         << "progress", worker[w].i, worker[w].total >>)

\* C27: an item whose status is already 'Tamamlandi' or 'Hata' when the
\* worker reaches it is never analysed again: analyze is not called for
\* it, its status, angle, diagnosis, lines and error message stay
\* unchanged and no item_finished is emitted for it; so a run over
\* finished items changes no item.
C27_FinishedItemsSkipped == [][C27_Step]_vars

\* a run over a list whose first item has failed before has ended without
\* a stop: it emitted progress for each item and nothing else but
\* finished_all
C27_Witness ==
    \E w \in Workers :
      /\ RanToEnd(w)
      /\ Len(lists[worker[w].list]) >= 2
      /\ lists[worker[w].list][1].status = "Hata"
      /\ lists[worker[w].list][2].status = "Tamamlandi"
      /\ worker[w].emitted =
           << << "progress", 1, 2 >>, << "progress", 2, 2 >>,
              << "finished_all" >> >>

\* the batch tab alone: the handlers of BatchAnalysisWidget and the steps
\* of its workers
NextBatchTab ==
    \/ LoadFolder
    \/ OnFileFound
    \/ OnScanFinished
    \/ StartAnalysis
    \/ StopAnalysis
    \/ StopReturns
    \/ \E w \in Workers :
         OnFinished(w) \/ WorkerRun(w) \/ WorkerCheck(w) \/ WorkerAnalyze(w)

\* one step of BatchWorker.run on the thread of worker w
WorkerStep(w) == WorkerRun(w) \/ WorkerCheck(w) \/ WorkerAnalyze(w)

\* the batch tab with the worker threads scheduled: a worker that can take
\* a step of run eventually takes it, and every analyze call returns
SpecBatchFair ==
    /\ InitBatch
    /\ [][NextBatchTab]_vars
    /\ \A w \in Workers : WF_vars(WorkerStep(w))

\* the number of finished_all among the signals
RECURSIVE CountFinishedAll(_)
CountFinishedAll(sigs) ==
    IF sigs = << >> THEN 0
    ELSE (IF Head(sigs)[1] = "finished_all" THEN 1 ELSE 0)
           + CountFinishedAll(Tail(sigs))

\* a worker that has ended has emitted finished_all once, as its last
\* signal; one that has not ended has not emitted it
C28_OnceAndLast ==
    \A w \in Workers :
      LET e == worker[w].emitted
      IN  IF worker[w].pc = "done"
          THEN /\ CountFinishedAll(e) = 1
               /\ e[Len(e)] = << "finished_all" >>
          ELSE CountFinishedAll(e) = 0

\* a worker that has ended stays ended and emits nothing more
C28_EndIsFinal ==
    \A w \in Workers :
      worker[w].pc = "done" =>
        /\ worker'[w].pc = "done"
        /\ worker'[w].emitted = worker[w].emitted

\* C28: every batch run in which each analyze call returns terminates and
\* emits finished_all exactly once, as its last signal, on every path: all
\* items analysed, stop requested before or during the run, items failing
\* or raising, or an empty item list.
C28_RunTerminates ==
    /\ []C28_OnceAndLast
    /\ [][C28_EndIsFinal]_vars
    /\ \A w \in Workers : []<>(~Running(w))

\* a run over an empty list and a run that was stopped during its first
\* item, whose analysis raised, have both ended
C28_Witness ==
    /\ \E w \in Workers :
         /\ worker[w].pc = "done"
         /\ worker[w].total = 0
         /\ worker[w].emitted = << << "finished_all" >> >>
    /\ \E w \in Workers :
         /\ worker[w].pc = "done"
         /\ ~worker[w].is_running
         /\ worker[w].late = 1
         /\ lists[worker[w].list][1].error_msg = "exception"
         /\ Len(worker[w].emitted) = 3

\* the end of a failed analysis changes the status and the error message
\* of the item and nothing else; the end of a successful one stores the
\* angle, the diagnosis and the lines of one result of analyze for the
\* item's path, and leaves path and side alone
C29_Step ==
    \A w \in DOMAIN worker :
      AnalysisEnds(w) =>
        LET old == lists[worker[w].list][worker[w].i]
            new == lists'[worker[w].list][worker[w].i]
        IN  /\ new.path = old.path
            /\ new.side = old.side
            /\ new.status = "Hata" =>
                 /\ new.angle = old.angle
                 /\ new.diagnosis = old.diagnosis
                 /\ new.lines = old.lines
            /\ new.status = "Tamamlandi" =>
                 \E o \in analyze(old.path, worker[w].model) :
                    /\ "error" \notin DOMAIN o.result
                    /\ new.angle = o.result.angle
                    /\ new.diagnosis = o.result.diagnosis
                    /\ new.lines = o.result.lines

\* C29: when the analysis of a batch item fails (error result or
\* exception) only its status and error message change: angle, diagnosis,
\* lines and side keep the values they had before the item was processed;
\* when it succeeds its angle, diagnosis and lines are exactly those of
\* the analysis result.
C29_ItemFrame == [][C29_Step]_vars

\* the first item failed with an exception and holds no measurement, the
\* second holds the measurement of its image
C29_Witness ==
    \E l \in ListIds :
      /\ Len(lists[l]) >= 2
      /\ lists[l][1].status = "Hata"
      /\ lists[l][1].error_msg = "exception"
      /\ lists[l][1].angle = 0
      /\ lists[l][1].diagnosis = ""
      /\ lists[l][1].lines = << >>
      /\ lists[l][2].status = "Tamamlandi"
      /\ lists[l][2].angle = 9000
      /\ lists[l][2].diagnosis = "Pes Cavus"
      /\ Len(lists[l][2].lines) = 2

====
